---- MODULE Spec2Model ----
(***************************************************************************)
(* Model of the QCS mock: the device graph (System), the SequenceBuilder,  *)
(* Experiment.run / RabiExperiment, the waveform converter, the qubit      *)
(* evolution simulator and the QuTiP simulation backend.                   *)
(*                                                                         *)
(* Strings that the code inspects character by character (device names and *)
(* channel paths, tested with "'xy' in path") are sequences of characters. *)
(* Python objects whose identity matters (ReadoutChannel) are heap ids.    *)
(***************************************************************************)
EXTENDS Integers, Sequences, FiniteSets, TLC

VARIABLES
    config,       \* self.config['quantum_devices'] as an ordered mapping
    sys,          \* the System under construction / constructed
    instances,    \* last System.get_instances call: its argument and result
    operations,   \* SequenceBuilder.operations of a builder driven directly
    calls,        \* log of the append/delay calls made on that builder
    conv,         \* last pulse_to_waveform call: its arguments and result
    sim,          \* last simulate_qubit_evolution call: arguments and outcome
    experiment,   \* class of the constructed Experiment ("None": none yet)
    builder,      \* operations of the SequenceBuilder the latest run created
    run,          \* last Experiment.run call: arguments, what it did, outcome
    exec          \* last backend.execute call: arguments, what it did, outcome

sysVars     == <<config, sys, instances>>
builderVars == <<operations, calls>>
numVars     == <<conv, sim>>
runVars     == <<experiment, builder, run, exec>>

vars == <<sysVars, builderVars, numVars, runVars>>

----------------------------------------------------------------------------
(* Bounds *)

MaxDevices == 3      \* entries in a configuration
MaxOps     == 3      \* calls made on a directly driven SequenceBuilder
MaxLen     == 3      \* samples in an array handed to the simulator directly
MaxRunDevices  == 2  \* entries in the configuration of an Experiment that runs
MaxExecDevices == 2  \* entries in the configuration behind a backend called directly
MaxSeq     == 2      \* operations in a list handed to execute directly
MaxRuns    == 2      \* run calls on one Experiment
MaxSamples == 128    \* sample counts searched for floor(duration * sample_rate)

----------------------------------------------------------------------------
(* Strings *)

Str_xy      == <<"x", "y">>
Str_dotxy   == <<".", "x", "y">>
Str_dotz    == <<".", "z">>
Str_drive   == <<".", "d", "r", "i", "v", "e">>
Str_measure == <<".", "m", "e", "a", "s", "u", "r", "e">>

\* Python's "sub in s" on strings.
StrIn(sub, s) ==
    \E i \in 0..(Len(s) - Len(sub)) : SubSeq(s, i + 1, i + Len(sub)) = sub

\* Device names a configuration may use.
DeviceNames == { <<"q", "0">>, <<"r", "0">>, <<"r", "1">>, <<"x", "y", "0">> }

----------------------------------------------------------------------------
(* Configuration *)

\* "NoKey": the entry has no channels.readout key.
NoKey == <<>>

\* One entry of quantum_devices: its key, its type tag (the two recognised
\* tags and one device_map does not know) and channels.readout.  Only a
\* TunableQubit's channels.readout is ever read, so the others carry none.
\* parameters.frequency is absent, a number or a list of numbers; only a
\* qubit's is ever read.
AbsentFrequency == [form |-> "absent", value |-> <<>>]

ConfigEntries(names, frequencies) ==
    [name : names, type : {"TunableQubit"}, readout : names \cup {NoKey},
     frequency : frequencies]
    \cup [name : names, type : {"ReadoutResonator", "Coupler"}, readout : {NoKey},
          frequency : {AbsentFrequency}]

\* A mapping has one entry per key.
DistinctNames(cfg) ==
    \A i, j \in 1..Len(cfg) : cfg[i].name = cfg[j].name => i = j

ConfigsUpTo(names, frequencies, n) ==
    { cfg \in UNION { [1..k -> ConfigEntries(names, frequencies)] : k \in 0..n } :
        DistinctNames(cfg) }

----------------------------------------------------------------------------
(* Device graph *)

None == 0

\* device_map.get(config['type'])
device_map(tag) ==
    IF tag \in {"TunableQubit", "ReadoutResonator"} THEN tag ELSE "None"

\* TunableQubit(name, config) / ReadoutResonator(name, config).  measure_channel
\* is the heap id of the ReadoutChannel the resonator creates (its position in
\* the configuration, so every resonator owns a different object); a qubit
\* creates none and starts with readout = None.
NewDevice(i, entry) ==
    [ name            |-> entry.name,
      type            |-> entry.type,
      parameters      |-> entry.frequency,
      readout         |-> None,
      measure_channel |-> IF entry.type = "ReadoutResonator" THEN i ELSE None ]

\* First loop of _load_devices: instantiate the recognised entries, in order.
RECURSIVE Instantiate(_, _)
Instantiate(cfg, i) ==
    IF i > Len(cfg) THEN <<>>
    ELSE IF device_map(cfg[i].type) # "None"
         THEN <<NewDevice(i, cfg[i])>> \o Instantiate(cfg, i + 1)
         ELSE Instantiate(cfg, i + 1)

\* self.quantum_devices[name] / name in self.quantum_devices
HasDevice(devs, name) == \E k \in 1..Len(devs) : devs[k].name = name
DeviceAt(devs, name)  == CHOOSE k \in 1..Len(devs) : devs[k].name = name

ConfigOf(cfg, name) == cfg[CHOOSE k \in 1..Len(cfg) : cfg[k].name = name]

\* One step of the linking loop for device k.  The outcome is the exception
\* raised ("none" when the step completes) and the devices afterwards.
LinkStepFirstResonator(cfg, devs, k) ==
    LET dev == devs[k] IN
    IF dev.type # "TunableQubit" THEN [error |-> "none", devices |-> devs]
    ELSE LET readout_name == ConfigOf(cfg, dev.name).readout IN
         IF readout_name = NoKey THEN [error |-> "KeyError", devices |-> devs]
         ELSE IF ~HasDevice(devs, readout_name) THEN [error |-> "none", devices |-> devs]
         ELSE LET rs == { j \in 1..Len(devs) : devs[j].type = "ReadoutResonator" } IN
              IF rs = {} THEN [error |-> "AttributeError", devices |-> devs]
              ELSE LET j == CHOOSE j \in rs : \A l \in rs : j <= l IN
                   [error |-> "none",
                    devices |-> [devs EXCEPT ![k].readout = devs[j].measure_channel]]

LinkStep(cfg, devs, k) ==
    LET dev == devs[k] IN
    IF dev.type # "TunableQubit" THEN [error |-> "none", devices |-> devs]
    ELSE LET readout_name == ConfigOf(cfg, dev.name).readout IN
         IF readout_name = NoKey THEN [error |-> "KeyError", devices |-> devs]
         ELSE IF ~HasDevice(devs, readout_name) THEN [error |-> "none", devices |-> devs]
         ELSE LET resonator == devs[DeviceAt(devs, readout_name)] IN
              \* resonator.measure_channel: a TunableQubit has no such attribute
              IF resonator.type # "ReadoutResonator"
              THEN [error |-> "AttributeError", devices |-> devs]
              ELSE [error |-> "none",
                    devices |-> [devs EXCEPT ![k].readout = resonator.measure_channel]]

\* Second loop of _load_devices, from device k on; stops at the first raise.
RECURSIVE LinkFrom(_, _, _)
LinkFrom(cfg, devs, k) ==
    IF k > Len(devs) THEN [error |-> "none", devices |-> devs]
    ELSE LET step == LinkStep(cfg, devs, k) IN
         IF step.error # "none" THEN step
         ELSE LinkFrom(cfg, step.devices, k + 1)

\* System._load_devices on self.config
_load_devices(cfg) == LinkFrom(cfg, Instantiate(cfg, 1), 1)

get_instances_all(devs, device_type) == devs

\* System.get_instances(device_type)
get_instances(devs, device_type) ==
    SelectSeq(devs, LAMBDA dev : dev.type = device_type)

----------------------------------------------------------------------------
(* SpecSys: constructing a System and querying it *)

IdleBuilder == operations = <<>> /\ calls = <<>>

NoConv == [called |-> FALSE]
NoSim  == [called |-> FALSE]
IdleNum == conv = NoConv /\ sim = NoSim

NoRun  == [called |-> FALSE, n |-> 0]
NoExec == [called |-> FALSE]
IdleRun == experiment = "None" /\ builder = <<>> /\ run = NoRun /\ exec = NoExec

NoSystem == [status |-> "unbuilt", error |-> "none", quantum_devices |-> <<>>]
NoQuery  == [device_type |-> "None", result |-> <<>>]

InitSys ==
    /\ config \in ConfigsUpTo(DeviceNames, {AbsentFrequency}, MaxDevices)
    /\ sys = NoSystem
    /\ instances = NoQuery
    /\ IdleBuilder
    /\ IdleNum
    /\ IdleRun

\* System.__init__: a raise leaves no System to the caller; the devices as they
\* were at the raise are kept for inspection.
SystemInit ==
    /\ sys.status = "unbuilt"
    /\ LET r == _load_devices(config) IN
       sys' = [status |-> IF r.error = "none" THEN "built" ELSE "raised",
               error |-> r.error,
               quantum_devices |-> r.devices]
    /\ UNCHANGED <<config, instances, builderVars, numVars, runVars>>

GetInstances(device_type) ==
    /\ sys.status = "built"
    /\ instances' = [device_type |-> device_type,
                     result |-> get_instances(sys.quantum_devices, device_type)]
    /\ UNCHANGED <<config, sys, builderVars, numVars, runVars>>

NextSys ==
    \/ SystemInit
    \/ \E T \in {"TunableQubit", "ReadoutResonator"} : GetInstances(T)

SpecSys == InitSys /\ [][NextSys]_vars

----------------------------------------------------------------------------
(* Operations and channels.  Durations in picoseconds, amplitudes in mV.    *)

XY_DEFAULT_DURATION == 40000     \* 40e-9 s
Z_DEFAULT_DURATION  == 100000    \* 100e-9 s
DEFAULT_INTEGRATION == 1000000   \* 1e-6 s

PulseOperation(channel_path, duration, amplitude, shape) ==
    [ op |-> "Pulse", channel_path |-> channel_path, duration |-> duration,
      amplitude |-> amplitude, frequency |-> 0, phase |-> 0, shape |-> shape ]

DelayOperation(duration) == [ op |-> "Delay", duration |-> duration ]

MeasureOperation(channel_path, integration_time) ==
    [ op |-> "Measure", channel_path |-> channel_path,
      integration_time |-> integration_time ]

\* XYChannel(path).play_pulse(amplitude, duration)
XY_play_pulse(path, amplitude, duration) ==
    PulseOperation(path, duration, amplitude, "gaussian")

\* ZChannel(path).play_pulse(amplitude, duration)
Z_play_pulse(path, amplitude, duration) ==
    PulseOperation(path, duration, amplitude, "square")

\* ReadoutChannel(path, integration_time).measure()
RC_measure(path, integration_time) == MeasureOperation(path, integration_time)

\* Channel paths built by the device constructors.
xy_path(name)      == name \o Str_dotxy
z_path(name)       == name \o Str_dotz
drive_path(name)   == name \o Str_drive
measure_path(name) == name \o Str_measure

----------------------------------------------------------------------------
(* SequenceBuilder *)

SB_append_front(ops, operation) == <<operation>> \o ops

\* SequenceBuilder.append(operation)
SB_append(ops, operation) == Append(ops, operation)

\* SequenceBuilder.delay(duration)
SB_delay(ops, duration) == SB_append(ops, DelayOperation(duration))

\* Operations handed to a directly driven builder: every kind, from several
\* channels, in any order.
SampleOps ==
    { XY_play_pulse(xy_path(<<"q", "0">>), 500, XY_DEFAULT_DURATION),
      Z_play_pulse(z_path(<<"q", "0">>), 100, Z_DEFAULT_DURATION),
      RC_measure(measure_path(<<"r", "0">>), DEFAULT_INTEGRATION),
      DelayOperation(20000) }

SampleDelays == {10000, 20000}

IdleSys == config = <<>> /\ sys = NoSystem /\ instances = NoQuery

InitBuilder ==
    /\ IdleSys
    /\ operations = <<>>       \* SequenceBuilder.__init__
    /\ calls = <<>>
    /\ IdleNum
    /\ IdleRun

BuilderAppend(operation) ==
    /\ Len(calls) < MaxOps
    /\ operations' = SB_append(operations, operation)
    /\ calls' = Append(calls, [call |-> "append", arg |-> operation])
    /\ UNCHANGED <<sysVars, numVars, runVars>>

BuilderDelay(duration) ==
    /\ Len(calls) < MaxOps
    /\ operations' = SB_delay(operations, duration)
    /\ calls' = Append(calls, [call |-> "delay", arg |-> duration])
    /\ UNCHANGED <<sysVars, numVars, runVars>>

NextBuilder ==
    \/ \E operation \in SampleOps : BuilderAppend(operation)
    \/ \E duration \in SampleDelays : BuilderDelay(duration)

SpecBuilder == InitBuilder /\ [][NextBuilder]_vars

----------------------------------------------------------------------------
(* Waveform converter.  Sample rates in MSa/s, so duration * sample_rate    *)
(* is duration_ps * rate / 10^6 samples.  Floats are fixed-point integers.   *)

DEFAULT_SAMPLE_RATE == 1000      \* 1e9 Sa/s

\* Python's int() of the quotient num / den: truncation toward zero.
IntTrunc(num, den) ==
    IF num >= 0 THEN num \div den ELSE -((-num) \div den)

PyMax(a, b) == IF a >= b THEN a ELSE b

n_points_unclamped(duration, sample_rate) ==
    IntTrunc(duration * sample_rate, 1000000)

\* n_points = max(int(op.duration * sample_rate), 2)
n_points(duration, sample_rate) ==
    PyMax(IntTrunc(duration * sample_rate, 1000000), 2)

\* np.linspace(0, stop, num, endpoint=False): num points, step stop / num.
linspace(stop, num) == [ i \in 1..num |-> ((i - 1) * stop) \div num ]

\* exp(-0.5 * u**2) in thousandths, for |u| in quarters (u = 0, 1/4, .., 2).
GaussTable == <<1000, 969, 882, 755, 607, 458, 325, 216, 135>>

Abs(x) == IF x < 0 THEN -x ELSE x

\* amplitude * exp(-0.5 * ((t - center) / sigma)**2) with sigma = duration/4,
\* center = duration/2: |u| = |16 t - 8 duration| / (4 duration).
gaussian(amplitude, duration, t) ==
    LET quarters == Abs(16 * t - 8 * duration) \div duration
        k == IF quarters > 8 THEN 8 ELSE quarters
    IN  (amplitude * GaussTable[k + 1]) \div 1000

np_ones(n)  == [ i \in 1..n |-> 1 ]
np_zeros(n) == [ i \in 1..n |-> 0 ]

\* pulse_to_waveform(op, sample_rate) -> (t, envelope)
pulse_to_waveform(op, sample_rate) ==
    LET n == n_points(op.duration, sample_rate)
        t == linspace(op.duration, n)
        envelope ==
            IF op.shape = "gaussian"
            THEN [ i \in 1..Len(t) |-> gaussian(op.amplitude, op.duration, t[i]) ]
            ELSE IF op.shape = "square"
            THEN [ i \in 1..Len(np_ones(n)) |-> op.amplitude * np_ones(n)[i] ]
            ELSE np_zeros(n)
    IN  [ t |-> t, envelope |-> envelope ]

----------------------------------------------------------------------------
(* Qubit evolution simulator *)

VOLT_TO_RABI_HERTZ == 25         \* 25e6 Hz per V, here kHz per mV
DEFAULT_FREQUENCY  == 5000       \* 5.0e9 Hz, here MHz
TWO_PI_MILLI       == 6283       \* 2 * np.pi, in thousandths

\* qubit_params.get('frequency', 5.0e9) and its conversion to float.  The
\* entry is absent, a number, or a list (possibly empty) of numbers.
FrequencyForms ==
    { AbsentFrequency,
      [form |-> "scalar", value |-> <<4800>>],
      [form |-> "list",   value |-> <<4800, 5200>>],
      [form |-> "list",   value |-> <<>>] }

qubit_freq(qubit_params) ==
    IF qubit_params.form = "absent"
    THEN [error |-> "none", value |-> DEFAULT_FREQUENCY]
    ELSE IF qubit_params.form = "list"
    THEN IF Len(qubit_params.value) = 0
         THEN [error |-> "IndexError", value |-> 0]      \* [][0]
         ELSE [error |-> "none", value |-> qubit_params.value[1]]
    ELSE [error |-> "none", value |-> qubit_params.value[1]]

\* A float the code computes or returns.  The final excited-state population
\* mesolve integrates is a deterministic function of the drive samples and
\* the time grid, left uninterpreted.
NoneValue == [is |-> "None"]
Float0    == [is |-> "0.0"]
mesolve_final_expect(angular_freq_envelope, t_list) ==
    [is |-> "P1", drive |-> angular_freq_envelope, tlist |-> t_list]

simulate_unchecked(pulse_envelope, t_list, qubit_params) ==
    LET f == qubit_freq(qubit_params)
        angular_freq_envelope ==
            [ i \in 1..Len(pulse_envelope) |->
                (TWO_PI_MILLI * (pulse_envelope[i] * VOLT_TO_RABI_HERTZ)) \div 1000 ]
    IN  IF f.error # "none"
        THEN [error |-> f.error, integrated |-> FALSE, value |-> NoneValue]
        ELSE [error |-> "none", integrated |-> TRUE,
              value |-> mesolve_final_expect(angular_freq_envelope, t_list)]

\* simulate_qubit_evolution(pulse_envelope, t_list, qubit_params): the
\* exception raised ("none" if it returns), whether mesolve was reached, and
\* the value returned.
simulate_qubit_evolution(pulse_envelope, t_list, qubit_params) ==
    LET f == qubit_freq(qubit_params)
        angular_freq_envelope ==
            [ i \in 1..Len(pulse_envelope) |->
                (TWO_PI_MILLI * (pulse_envelope[i] * VOLT_TO_RABI_HERTZ)) \div 1000 ]
    IN  IF f.error # "none"
        THEN [error |-> f.error, integrated |-> FALSE, value |-> NoneValue]
        ELSE IF Len(t_list) # Len(angular_freq_envelope)
        THEN [error |-> "ValueError", integrated |-> FALSE, value |-> NoneValue]
        ELSE [error |-> "none", integrated |-> TRUE,
              value |-> mesolve_final_expect(angular_freq_envelope, t_list)]

----------------------------------------------------------------------------
(* SpecNum: the converter and the simulator called directly *)

SampleDurations == {1, 700, 1000, 1999, 2000, 3400, 4000, XY_DEFAULT_DURATION}
SampleRates     == {500, DEFAULT_SAMPLE_RATE, 2500}
SampleShapes    == {"gaussian", "square", "triangle"}
SampleAmps      == {0, 500}

SamplePulses ==
    { PulseOperation(xy_path(<<"q", "0">>), d, a, sh) :
        d \in SampleDurations, a \in SampleAmps, sh \in SampleShapes }

\* Arrays of up to n samples; time grids of up to n points, 1 ns apart.
ArraysUpTo(n) == UNION { [1..k -> SampleAmps] : k \in 0..n }
GridsUpTo(n)  == { [ i \in 1..k |-> (i - 1) * 1000 ] : k \in 0..n }

InitNum ==
    /\ IdleSys
    /\ IdleBuilder
    /\ conv = NoConv
    /\ sim = NoSim
    /\ IdleRun

\* conv and sim record the calls made during one top-level call; both
\* functions are pure, so one call from the initial state shows all they do.
Fresh == ~conv.called /\ ~sim.called /\ ~run.called /\ ~exec.called

Convert(op, sample_rate) ==
    /\ Fresh
    /\ conv' = [called |-> TRUE, op |-> op, sample_rate |-> sample_rate,
                out |-> pulse_to_waveform(op, sample_rate)]
    /\ sim' = NoSim
    /\ UNCHANGED <<sysVars, builderVars, runVars>>

\* The simulator on arrays of the caller's making.  An empty pair is left
\* out: what mesolve does on an empty grid is not this repository's code.
Simulate(pulse_envelope, t_list, qubit_params) ==
    /\ Fresh
    /\ Len(pulse_envelope) + Len(t_list) > 0
    /\ conv' = NoConv
    /\ sim' = [called |-> TRUE,
               pulse_envelope |-> pulse_envelope, t_list |-> t_list,
               qubit_params |-> qubit_params,
               out |-> simulate_qubit_evolution(pulse_envelope, t_list, qubit_params)]
    /\ UNCHANGED <<sysVars, builderVars, runVars>>

\* The converter's result handed to the simulator, as execute chains them.
ConvertAndSimulate(op, sample_rate, qubit_params) ==
    /\ Fresh
    /\ LET w == pulse_to_waveform(op, sample_rate) IN
       /\ conv' = [called |-> TRUE, op |-> op, sample_rate |-> sample_rate, out |-> w]
       /\ sim' = [called |-> TRUE,
                  pulse_envelope |-> w.envelope, t_list |-> w.t,
                  qubit_params |-> qubit_params,
                  out |-> simulate_qubit_evolution(w.envelope, w.t, qubit_params)]
    /\ UNCHANGED <<sysVars, builderVars, runVars>>

NextNum ==
    \/ \E op \in SamplePulses, sample_rate \in SampleRates : Convert(op, sample_rate)
    \/ \E e \in ArraysUpTo(MaxLen), t \in GridsUpTo(MaxLen), qp \in FrequencyForms :
          Simulate(e, t, qp)
    \/ \E op \in SamplePulses, sample_rate \in SampleRates, qp \in FrequencyForms :
          ConvertAndSimulate(op, sample_rate, qp)

SpecNum == InitNum /\ [][NextNum]_vars

----------------------------------------------------------------------------
(* Backends *)

\* next((op for op in operations if isinstance(op, PulseOperation)
\*       and 'xy' in op.channel_path), None): its index, 0 for None.
IsControlPulse(op) == op.op = "Pulse" /\ StrIn(Str_xy, op.channel_path)

control_pulse_op(ops) ==
    IF \E i \in 1..Len(ops) : IsControlPulse(ops[i])
    THEN CHOOSE i \in 1..Len(ops) :
            /\ IsControlPulse(ops[i])
            /\ \A j \in 1..(i - 1) : ~IsControlPulse(ops[j])
    ELSE 0

SimCall(pulse_envelope, t_list, qubit_params) ==
    [called |-> TRUE, pulse_envelope |-> pulse_envelope, t_list |-> t_list,
     qubit_params |-> qubit_params,
     out |-> simulate_qubit_evolution(pulse_envelope, t_list, qubit_params)]

ConvCall(op, sample_rate) ==
    [called |-> TRUE, op |-> op, sample_rate |-> sample_rate,
     out |-> pulse_to_waveform(op, sample_rate)]

\* QuTiPSimulationBackend(experiment).execute(operations), devs being
\* experiment.system.quantum_devices: the pulse selected, the exception
\* raised ("none" if it returns), the value returned, and the converter and
\* simulator calls it made.
QuTiP_execute(devs, ops) ==
    LET selected == control_pulse_op(ops) IN
    IF selected = 0
    THEN [selected |-> 0, error |-> "none", value |-> Float0,
          conv |-> NoConv, sim |-> NoSim]
    ELSE LET c == ConvCall(ops[selected], DEFAULT_SAMPLE_RATE)
             qubits == get_instances(devs, "TunableQubit")
         IN  IF Len(qubits) = 0          \* get_instances(TunableQubit)[0]
             THEN [selected |-> selected, error |-> "IndexError", value |-> NoneValue,
                   conv |-> c, sim |-> NoSim]
             ELSE LET s == SimCall(c.out.envelope, c.out.t, qubits[1].parameters) IN
                  [selected |-> selected, error |-> s.out.error, value |-> s.out.value,
                   conv |-> c, sim |-> s]

\* PrintingBackend.execute(operations): prints, returns None.
Printing_execute(ops) ==
    [selected |-> 0, error |-> "none", value |-> NoneValue,
     conv |-> NoConv, sim |-> NoSim]

Backends == {"PrintingBackend", "QuTiPSimulationBackend"}

backend_execute(backend, devs, ops) ==
    IF backend = "QuTiPSimulationBackend" THEN QuTiP_execute(devs, ops)
    ELSE Printing_execute(ops)

----------------------------------------------------------------------------
(* Experiment *)

\* The ReadoutChannel object with heap id ch: the measure_channel of the
\* resonator that created it, with its path and integration time.
ChannelOwner(devs, ch) ==
    devs[CHOOSE j \in 1..Len(devs) : devs[j].measure_channel = ch]

\* make_sequence outcomes: the exception raised ("none" if it returns), the
\* builder's operations afterwards, and the operations this call appended.
Base_make_sequence_pass(ops) ==
    [error |-> "none", operations |-> ops, appended |-> <<>>]

\* Experiment.make_sequence(the_sequencer, **kwargs)
Base_make_sequence(ops) ==
    [error |-> "NotImplementedError", operations |-> ops, appended |-> <<>>]

Rabi_make_sequence_guarded(devs, ops, amplitude) ==
    LET qubits == get_instances(devs, "TunableQubit") IN
    IF Len(qubits) = 0
    THEN [error |-> "IndexError", operations |-> ops, appended |-> <<>>]
    ELSE LET qubit == qubits[1]
             pulse == XY_play_pulse(xy_path(qubit.name), amplitude, XY_DEFAULT_DURATION)
         IN  IF qubit.readout = None
             THEN [error |-> "none", operations |-> SB_append(ops, pulse),
                   appended |-> <<pulse>>]
             ELSE LET m == RC_measure(measure_path(ChannelOwner(devs, qubit.readout).name),
                                      DEFAULT_INTEGRATION)
                  IN  [error |-> "none",
                       operations |-> SB_append(SB_append(ops, pulse), m),
                       appended |-> <<pulse, m>>]

\* RabiExperiment.make_sequence(the_sequencer, amplitude)
Rabi_make_sequence(devs, ops, amplitude) ==
    LET qubits == get_instances(devs, "TunableQubit") IN
    IF Len(qubits) = 0          \* get_instances(TunableQubit)[0]
    THEN [error |-> "IndexError", operations |-> ops, appended |-> <<>>]
    ELSE LET qubit == qubits[1]
             pulse == XY_play_pulse(xy_path(qubit.name), amplitude, XY_DEFAULT_DURATION)
         IN  IF qubit.readout = None          \* None.measure()
             THEN [error |-> "AttributeError", operations |-> SB_append(ops, pulse),
                   appended |-> <<pulse>>]
             ELSE LET m == RC_measure(measure_path(ChannelOwner(devs, qubit.readout).name),
                                      DEFAULT_INTEGRATION)
                  IN  [error |-> "none",
                       operations |-> SB_append(SB_append(ops, pulse), m),
                       appended |-> <<pulse, m>>]

ExperimentClasses == {"Experiment", "RabiExperiment"}

make_sequence(class, devs, ops, amplitude) ==
    IF class = "RabiExperiment" THEN Rabi_make_sequence(devs, ops, amplitude)
    ELSE Base_make_sequence(ops)

SequenceBuilder_kept(previous) == previous

\* builder = SequenceBuilder() in run: a new, empty builder, whatever the
\* builder of the run before held.
SequenceBuilder_new(previous) == <<>>

\* Experiment.run(backend, **kwargs): the builder it created, what
\* make_sequence did, the execute call it made if any, and its outcome.
Experiment_run(class, devs, previous, backend, amplitude) ==
    LET ms == make_sequence(class, devs, SequenceBuilder_new(previous), amplitude) IN
    IF ms.error # "none"
    THEN [builder |-> ms.operations, appended |-> ms.appended, raised_in |-> "make_sequence",
          execute_calls |-> 0, execute_arg |-> <<>>, exec |-> NoExec,
          conv |-> NoConv, sim |-> NoSim,
          error |-> ms.error, value |-> NoneValue]
    ELSE LET e == backend_execute(backend, devs, ms.operations) IN
         [builder |-> ms.operations, appended |-> ms.appended,
          raised_in |-> IF e.error = "none" THEN "nowhere" ELSE "execute",
          execute_calls |-> 1, execute_arg |-> ms.operations,
          exec |-> [called |-> TRUE, backend |-> backend, ops |-> ms.operations,
                    emitters |-> <<>>, selected |-> e.selected,
                    error |-> e.error, value |-> e.value],
          conv |-> e.conv, sim |-> e.sim,
          error |-> e.error, value |-> e.value]

----------------------------------------------------------------------------
(* Spec: an Experiment of either class, run any number of times *)

RunNames == { <<"q", "0">>, <<"r", "0">>, <<"x", "y", "0">> }
RunAmps  == {0, 500, 1500}

\* Configurations whose qubits all carry the frequency entry f.
BuiltConfigs(names, n) ==
    { cfg \in UNION { ConfigsUpTo(names, {f}, n) : f \in FrequencyForms } :
        _load_devices(cfg).error = "none" }

\* The state after Experiment.__init__ returned: the System is built.
Init ==
    /\ config \in BuiltConfigs(RunNames, MaxRunDevices)
    /\ sys = [status |-> "built", error |-> "none",
              quantum_devices |-> _load_devices(config).devices]
    /\ instances = NoQuery
    /\ IdleBuilder
    /\ IdleNum
    /\ experiment \in ExperimentClasses
    /\ builder = <<>>
    /\ run = NoRun
    /\ exec = NoExec

Run(backend, amplitude) ==
    /\ experiment \in ExperimentClasses
    /\ run.n < MaxRuns
    /\ LET r == Experiment_run(experiment, sys.quantum_devices, builder, backend, amplitude) IN
       /\ builder' = r.builder
       /\ run' = [called |-> TRUE, n |-> run.n + 1,
                  backend |-> backend, amplitude |-> amplitude,
                  appended |-> r.appended, raised_in |-> r.raised_in,
                  execute_calls |-> r.execute_calls, execute_arg |-> r.execute_arg,
                  error |-> r.error, value |-> r.value]
       /\ exec' = r.exec
       /\ conv' = r.conv
       /\ sim' = r.sim
    /\ UNCHANGED <<sysVars, builderVars, experiment>>

Next == \E backend \in Backends, amplitude \in RunAmps : Run(backend, amplitude)

Spec == Init /\ [][Next]_vars

----------------------------------------------------------------------------
(* SpecExec: one call on a simulation backend bound to a RabiExperiment, on *)
(* the simulator, or through run                                            *)

ExecNames == { <<"q", "0">>, <<"x", "y", "0">> }

\* Operations as the channels of qubits q0 and xy0 and of resonator r0 emit
\* them, each with the channel attribute that emitted it.
EmittedOps ==
    { [operation |-> XY_play_pulse(xy_path(<<"q", "0">>), 500, XY_DEFAULT_DURATION),
       emitter |-> "qubit.xy"],
      [operation |-> XY_play_pulse(xy_path(<<"x", "y", "0">>), 1500, 2000),
       emitter |-> "qubit.xy"],
      [operation |-> Z_play_pulse(z_path(<<"q", "0">>), 100, Z_DEFAULT_DURATION),
       emitter |-> "qubit.z"],
      [operation |-> Z_play_pulse(z_path(<<"x", "y", "0">>), 100, 3000),
       emitter |-> "qubit.z"],
      [operation |-> XY_play_pulse(drive_path(<<"r", "0">>), 500, XY_DEFAULT_DURATION),
       emitter |-> "resonator.drive"],
      [operation |-> RC_measure(measure_path(<<"r", "0">>), DEFAULT_INTEGRATION),
       emitter |-> "resonator.measure_channel"],
      [operation |-> DelayOperation(20000), emitter |-> "builder.delay"] }

EmittedListsUpTo(n) == UNION { [1..k -> EmittedOps] : k \in 0..n }

InitExec ==
    /\ config \in BuiltConfigs(ExecNames, MaxExecDevices)
    /\ sys = [status |-> "built", error |-> "none",
              quantum_devices |-> _load_devices(config).devices]
    /\ instances = NoQuery
    /\ IdleBuilder
    /\ IdleNum
    /\ experiment = "RabiExperiment"
    /\ builder = <<>>
    /\ run = NoRun
    /\ exec = NoExec

\* sim_backend.execute(operations), called directly.
Execute(emitted) ==
    /\ Fresh
    /\ LET ops == [ i \in 1..Len(emitted) |-> emitted[i].operation ]
           e == QuTiP_execute(sys.quantum_devices, ops)
       IN  /\ exec' = [called |-> TRUE, backend |-> "QuTiPSimulationBackend",
                       ops |-> ops,
                       emitters |-> [ i \in 1..Len(emitted) |-> emitted[i].emitter ],
                       selected |-> e.selected, error |-> e.error, value |-> e.value]
           /\ conv' = e.conv
           /\ sim' = e.sim
    /\ UNCHANGED <<sysVars, builderVars, experiment, builder, run>>

\* exp.run(backend=sim_backend, amplitude=amp), one sweep point.
RunOnce(amplitude) ==
    /\ Fresh
    /\ Run("QuTiPSimulationBackend", amplitude)

NextExec ==
    \/ \E emitted \in EmittedListsUpTo(MaxSeq) : Execute(emitted)
    \/ \E e \in ArraysUpTo(MaxLen), t \in GridsUpTo(MaxLen), qp \in FrequencyForms :
          Simulate(e, t, qp)
    \/ \E amplitude \in RunAmps : RunOnce(amplitude)

SpecExec == InitExec /\ [][NextExec]_vars

----------------------------------------------------------------------------
(* Claims about the device graph *)

Qubits(devs)     == { k \in 1..Len(devs) : devs[k].type = "TunableQubit" }
Resonators(devs) == { k \in 1..Len(devs) : devs[k].type = "ReadoutResonator" }

\* The configured name resolves to a ReadoutResonator of the graph.
ResolvesToResonator(devs, readout_name) ==
    \E j \in Resonators(devs) : devs[j].name = readout_name

\* C3: after construction every qubit's readout is None or is the very
\* measure_channel object of the resonator of the same graph that the qubit's
\* configured channels.readout names.
C3_ReadoutIsNamedResonatorsChannel ==
    sys.status = "built" =>
        \A k \in Qubits(sys.quantum_devices) :
            LET q == sys.quantum_devices[k] IN
            \/ q.readout = None
            \/ \E j \in Resonators(sys.quantum_devices) :
                  LET r == sys.quantum_devices[j] IN
                  /\ r.name = ConfigOf(config, q.name).readout
                  /\ r.measure_channel # None
                  /\ q.readout = r.measure_channel

\* A graph with two resonators in which a qubit is linked to the second one,
\* configured after the qubit itself.
C3_Witness ==
    /\ sys.status = "built"
    /\ Cardinality(Resonators(sys.quantum_devices)) = 2
    /\ \E k \in Qubits(sys.quantum_devices), j \in Resonators(sys.quantum_devices) :
          /\ k < j
          /\ sys.quantum_devices[k].readout = sys.quantum_devices[j].measure_channel
          /\ sys.quantum_devices[k].readout # None
          /\ \E l \in Resonators(sys.quantum_devices) : l < j

\* Every qubit entry has a channels.readout key.
AllReadoutKeysPresent ==
    \A i \in 1..Len(config) :
        config[i].type = "TunableQubit" => config[i].readout # NoKey

\* C4: construction links a qubit only if its readout name resolves to a
\* ReadoutResonator of the graph; for every other name construction completes
\* without raising and the qubit stays unlinked.
C4_UnresolvedNameLeavesUnlinked ==
    (sys.status # "unbuilt" /\ AllReadoutKeysPresent) =>
        /\ sys.status = "built"
        /\ \A k \in Qubits(sys.quantum_devices) :
              LET q == sys.quantum_devices[k] IN
              q.readout # None =>
                  ResolvesToResonator(sys.quantum_devices, ConfigOf(config, q.name).readout)

\* C9: get_instances(T) is the configured devices tagged T, each once, in
\* configuration order; entries with an unrecognised tag are in no result and
\* not in the graph, and skipping them raises nothing.
NamesOf(seq) == [ i \in 1..Len(seq) |-> seq[i].name ]

ConfiguredAs(cfg, tag) == SelectSeq(cfg, LAMBDA e : e.type = tag)

C9_GetInstancesInConfigOrder ==
    /\ instances.device_type # "None" =>
          /\ NamesOf(instances.result) = NamesOf(ConfiguredAs(config, instances.device_type))
          /\ \A i \in 1..Len(instances.result) :
                instances.result[i].type = instances.device_type
    /\ sys.status # "unbuilt" =>
          /\ \A i \in 1..Len(config) :
                config[i].type = "Coupler" => ~HasDevice(sys.quantum_devices, config[i].name)
          /\ (\A i \in 1..Len(config) : config[i].type # "TunableQubit")
                => sys.status = "built"

\* A query on a graph built from a configuration holding an unrecognised
\* entry between two devices of the queried type.
C9_Witness ==
    /\ instances.device_type = "ReadoutResonator"
    /\ Len(instances.result) = 2
    /\ Len(config) = 3
    /\ config[2].type = "Coupler"

----------------------------------------------------------------------------
(* Claims about the SequenceBuilder *)

\* C2: operations holds one entry per append/delay call, in call order: the
\* operation itself for append, a DelayOperation of that duration for delay.
C2_OperationsMirrorCalls ==
    /\ Len(operations) = Len(calls)
    /\ \A i \in 1..Len(calls) :
          /\ calls[i].call = "append" => operations[i] = calls[i].arg
          /\ calls[i].call = "delay" => operations[i] = DelayOperation(calls[i].arg)

\* A measurement appended before a pulse, then a delay: an order no backend
\* would expect, kept as called.
C2_Witness ==
    /\ Len(calls) = 3
    /\ calls[1].call = "append" /\ calls[1].arg.op = "Measure"
    /\ calls[2].call = "append" /\ calls[2].arg.op = "Pulse"
    /\ calls[3].call = "delay"
    /\ operations[3].op = "Delay"

----------------------------------------------------------------------------
(* Claims about Experiment.run *)

\* C1: every run that gets past make_sequence calls backend.execute exactly
\* once, on exactly the operations its own make_sequence appended, and a run
\* that completes returns the value execute returned.
C1_OneExecuteOnOwnSequence ==
    (run.called /\ run.raised_in # "make_sequence") =>
        /\ run.execute_calls = 1
        /\ exec.called
        /\ exec.ops = run.appended
        /\ run.execute_arg = run.appended
        /\ run.error = "none" => run.value = exec.value

\* A second run of a RabiExperiment, completed on the simulation backend.
C1_Witness ==
    /\ run.called /\ run.n = 2
    /\ run.error = "none"
    /\ Len(run.appended) = 2
    /\ run.backend = "QuTiPSimulationBackend"
    /\ run.value.is = "P1"

\* C8: run on an Experiment that does not override make_sequence raises
\* NotImplementedError, whatever the backend and parameters, and never calls
\* backend.execute.
C8_BaseRunNotImplemented ==
    (experiment = "Experiment" /\ run.called) =>
        /\ run.error = "NotImplementedError"
        /\ run.execute_calls = 0
        /\ ~exec.called
        /\ ~sim.called

C8_Witness ==
    /\ experiment = "Experiment"
    /\ run.called /\ run.n = 2
    /\ run.backend = "QuTiPSimulationBackend"
    /\ run.error = "NotImplementedError"

FirstQubit == get_instances(sys.quantum_devices, "TunableQubit")[1]
HasQubit   == Len(get_instances(sys.quantum_devices, "TunableQubit")) > 0

\* C10: a RabiExperiment whose first qubit is unlinked fails in make_sequence
\* at measure(), after the pulse was appended: the error reaches the caller,
\* execute is not called and nothing is returned.  When it is linked, the
\* backend receives the qubit's XY pulse of the given amplitude, then the
\* measurement on the channel of the resonator the qubit's readout names.
C10_RabiUnlinkedFailsLinkedSendsTwo ==
    (experiment = "RabiExperiment" /\ run.called /\ HasQubit) =>
        /\ FirstQubit.readout = None =>
              /\ run.error = "AttributeError"
              /\ run.raised_in = "make_sequence"
              /\ Len(run.appended) = 1
              /\ run.execute_calls = 0
              /\ ~exec.called
              /\ run.value = NoneValue
        /\ FirstQubit.readout # None =>
              /\ run.execute_calls = 1
              /\ exec.ops =
                    << [ op |-> "Pulse", channel_path |-> FirstQubit.name \o Str_dotxy,
                         duration |-> XY_DEFAULT_DURATION, amplitude |-> run.amplitude,
                         frequency |-> 0, phase |-> 0, shape |-> "gaussian" ],
                       [ op |-> "Measure",
                         channel_path |-> ConfigOf(config, FirstQubit.name).readout
                                              \o Str_measure,
                         integration_time |-> DEFAULT_INTEGRATION ] >>

\* An unlinked first qubit run against the simulation backend.
C10_Witness ==
    /\ experiment = "RabiExperiment"
    /\ run.called /\ HasQubit
    /\ FirstQubit.readout = None
    /\ run.backend = "QuTiPSimulationBackend"
    /\ run.error = "AttributeError"

----------------------------------------------------------------------------
(* Claims about the simulation backend *)

XYClassPulses ==
    { i \in 1..Len(exec.ops) :
        exec.ops[i].op = "Pulse" /\ exec.emitters[i] \in {"qubit.xy", "resonator.drive"} }

QubitXYPulses ==
    { i \in 1..Len(exec.ops) :
        exec.ops[i].op = "Pulse" /\ exec.emitters[i] = "qubit.xy" }

\* execute called directly on a backend whose experiment has a qubit (the
\* backend reads the first qubit's parameters).
DirectExecute == exec.called /\ ~run.called /\ HasQubit

\* C5: execute returns 0.0, raising nothing and calling neither converter nor
\* simulator, when the list holds no pulse emitted by an XY channel; otherwise
\* it converts the earliest pulse an XY channel emitted.  A pulse a Z channel
\* emitted is never selected.  (Whether a resonator's drive channel, an
\* XYChannel, counts as "XY" is left open: both readings are allowed.)
C5_SelectsFirstXYPulse ==
    DirectExecute =>
        /\ XYClassPulses = {} =>
              /\ exec.selected = 0
              /\ exec.error = "none"
              /\ exec.value = Float0
              /\ ~conv.called /\ ~sim.called
        /\ QubitXYPulses # {} =>
              /\ exec.selected \in XYClassPulses
              /\ \A i \in QubitXYPulses : exec.selected <= i
              /\ conv.called /\ conv.op = exec.ops[exec.selected]
        /\ exec.selected # 0 => exec.emitters[exec.selected] # "qubit.z"

\* C7 as claimed: a length mismatch makes the simulator raise ValueError
\* before integrating, whatever qubit_params holds.
C7_MismatchAlwaysValueError ==
    (sim.called /\ Len(sim.pulse_envelope) # Len(sim.t_list)) =>
        /\ sim.out.error = "ValueError"
        /\ ~sim.out.integrated
        /\ sim.out.value = NoneValue

\* The frequency entry converts to a float: absent, a number, or a list
\* with a first element.
FrequencyConverts(qubit_params) ==
    qubit_params.form = "list" => Len(qubit_params.value) > 0

\* C7 (amended): with a frequency entry that converts, a length mismatch
\* makes the simulator raise ValueError before integrating and return
\* nothing; and whatever the simulator raises or returns inside execute is
\* what execute raises or returns, and what a run raises or returns, with one
\* execute call and no second attempt.
C7_MismatchValueErrorPropagates ==
    /\ (sim.called /\ Len(sim.pulse_envelope) # Len(sim.t_list)
            /\ FrequencyConverts(sim.qubit_params)) =>
          /\ sim.out.error = "ValueError"
          /\ ~sim.out.integrated
          /\ sim.out.value = NoneValue
    /\ (exec.called /\ sim.called) =>
          /\ exec.error = sim.out.error
          /\ exec.value = sim.out.value
    /\ (run.called /\ exec.called) =>
          /\ run.error = exec.error
          /\ run.value = exec.value
          /\ run.execute_calls = 1

\* Envelope of 3 samples against a grid of 2, frequency given as a list.
C7_Witness ==
    /\ sim.called
    /\ Len(sim.pulse_envelope) = 3 /\ Len(sim.t_list) = 2
    /\ sim.qubit_params.form = "list"
    /\ sim.out.error = "ValueError"

----------------------------------------------------------------------------
(* Claims about the waveform converter *)

\* floor(duration * sample_rate), from its definition.
FloorSamples(duration, sample_rate) ==
    CHOOSE k \in 0..MaxSamples :
        /\ k * 1000000 <= duration * sample_rate
        /\ duration * sample_rate < (k + 1) * 1000000

\* C6: for duration > 0 and sample_rate > 0, whatever the shape, the time and
\* envelope arrays both have N = max(floor(duration * sample_rate), 2)
\* samples, so N >= 2, and handing them to the simulator never raises the
\* length-mismatch ValueError.
C6_LengthsEqualAtLeastTwo ==
    conv.called =>
        LET f == FloorSamples(conv.op.duration, conv.sample_rate)
            N == IF f > 2 THEN f ELSE 2
        IN  /\ Len(conv.out.t) = N
            /\ Len(conv.out.envelope) = N
            /\ Len(conv.out.t) >= 2
            /\ sim.called => sim.out.error # "ValueError"

\* A pulse of under two samples, of a shape the converter does not know,
\* converted and simulated.
C6_Witness ==
    /\ conv.called /\ sim.called
    /\ conv.op.duration * conv.sample_rate < 2000000
    /\ conv.op.shape = "triangle"
    /\ Len(conv.out.envelope) = 2
    /\ sim.out.error = "none"

====
